---- MODULE Spec2Model ----
(***************************************************************************)
(* Model of the PDF page extractor: the page-range codec (parse_pages and  *)
(* update_page_spec_field / update_page_spec_entry), the page-selection    *)
(* state of the Flet front-end (pdf_extractor_flet.pyw) and of the Tkinter *)
(* front-end, and the background workers that load a document.             *)
(*                                                                         *)
(* A Python str is modelled as a sequence of one-character strings.        *)
(***************************************************************************)
EXTENDS Integers, Sequences, FiniteSets, TLC

(***************************************************************************)
(* Strings and the Python built-ins the codec uses                         *)
(***************************************************************************)

Digits == <<"0", "1", "2", "3", "4", "5", "6", "7", "8", "9">>

DigitChars == {Digits[i] : i \in 1..10}

\* str.isspace for one character: the characters str.strip() removes
IsSpace(c) == c = " "

DigitVal(c) == (CHOOSE i \in 1..10 : Digits[i] = c) - 1

\* int(token) of a string of decimal digits
RECURSIVE int(_)
int(s) ==
    IF Len(s) = 0 THEN 0
    ELSE int(SubSeq(s, 1, Len(s) - 1)) * 10 + DigitVal(s[Len(s)])

\* f'{n}' of a non-negative integer: its decimal digits, no leading zero
RECURSIVE str(_)
str(n) ==
    IF n < 10 THEN <<Digits[n + 1]>>
    ELSE str(n \div 10) \o <<Digits[(n % 10) + 1]>>

\* s.lstrip() / s.rstrip() / s.strip()
RECURSIVE lstrip(_)
lstrip(s) ==
    IF Len(s) > 0 /\ IsSpace(s[1]) THEN lstrip(Tail(s)) ELSE s

RECURSIVE rstrip(_)
rstrip(s) ==
    IF Len(s) > 0 /\ IsSpace(s[Len(s)]) THEN rstrip(SubSeq(s, 1, Len(s) - 1)) ELSE s

\* mutant: only the leading whitespace removed
strip_leading(s) == lstrip(s)

strip(s) == rstrip(lstrip(s))

\* s.split(sep): the pieces between the separators, empty pieces kept
RECURSIVE SplitFrom(_, _, _, _)
SplitFrom(s, sep, i, cur) ==
    IF i > Len(s) THEN <<cur>>
    ELSE IF s[i] = sep THEN <<cur>> \o SplitFrom(s, sep, i + 1, <<>>)
    ELSE SplitFrom(s, sep, i + 1, Append(cur, s[i]))

split(s, sep) == SplitFrom(s, sep, 1, <<>>)

\* sep.join(parts)
RECURSIVE join(_, _)
join(sep, parts) ==
    IF Len(parts) = 0 THEN <<>>
    ELSE IF Len(parts) = 1 THEN parts[1]
    ELSE parts[1] \o <<sep>> \o join(sep, Tail(parts))

SetMin(S) == CHOOSE x \in S : \A y \in S : x <= y

SetMax(S) == CHOOSE x \in S : \A y \in S : x >= y

\* sorted(pages) of a set of integers: the ascending list, the set halved at
\* the middle of its span until one element is left
RECURSIVE sorted(_)
sorted(S) ==
    IF S = {} THEN <<>>
    ELSE LET lo == SetMin(S)
             hi == SetMax(S)
             mid == (lo + hi) \div 2
         IN IF lo = hi THEN <<lo>>
            ELSE sorted({y \in S : y <= mid}) \o sorted({y \in S : y > mid})

\* set(pages) of a list
SeqToSet(q) == {q[i] : i \in 1..Len(q)}

AllDigits(s) == \A i \in 1..Len(s) : s[i] \in DigitChars

\* PAGE_RE = ^\d+$
PAGE_RE(token) == Len(token) >= 1 /\ AllDigits(token)

\* mutant: ^(\d+)-(\d*)$, the second number optional
HyphenAt_loose(token) ==
    LET Cand == {i \in 2..Len(token) :
                    /\ token[i] = "-"
                    /\ AllDigits(SubSeq(token, 1, i - 1))
                    /\ AllDigits(SubSeq(token, i + 1, Len(token)))}
    IN IF Cand = {} THEN 0 ELSE CHOOSE i \in Cand : TRUE

\* the position of the hyphen of a token matching RANGE_RE, 0 when none matches
HyphenAt(token) ==
    LET Cand == {i \in 2..(Len(token) - 1) :
                    /\ token[i] = "-"
                    /\ AllDigits(SubSeq(token, 1, i - 1))
                    /\ AllDigits(SubSeq(token, i + 1, Len(token)))}
    IN IF Cand = {} THEN 0 ELSE CHOOSE i \in Cand : TRUE

\* RANGE_RE = ^(\d+)-(\d+)$
RANGE_RE(token) == HyphenAt(token) # 0

(***************************************************************************)
(* parse_pages: the page spec "1,3-5" to the ascending 0-based page list   *)
(***************************************************************************)

\* a returned list, or a raised ValueError: `site` is the raise statement and
\* `arg` the value its message names
Returned(pages) == [ok |-> TRUE, pages |-> pages, exc |-> "", site |-> "", arg |-> <<>>]

Raised(site, arg) == [ok |-> FALSE, pages |-> <<>>, exc |-> "ValueError", site |-> site, arg |-> arg]

\* mutant: the upper bound taken exclusive
PageInBounds_exclusive(num, max_page) == 1 <= num /\ num < max_page

\* 1 <= num <= max_page
PageInBounds(num, max_page) == 1 <= num /\ num <= max_page

\* mutant: the inverted-range test left out
RangeInverted_missing(a, b) == FALSE

\* a > b
RangeInverted(a, b) == a > b

\* a < 1 or b > max_page
RangeOutOfBounds(a, b, max_page) == a < 1 \/ b > max_page

\* mutant: range(a, b), the 1-based start not converted
RangeIndices_unshifted(a, b) == a..(b - 1)

\* range(a - 1, b)
RangeIndices(a, b) == (a - 1)..(b - 1)

\* the body of `for token in spec.split(',')`, from token number i on, with
\* the set `pages` accumulated so far
RECURSIVE ParseTokens(_, _, _, _)
ParseTokens(tokens, i, pages, max_page) ==
    IF i > Len(tokens) THEN Returned(sorted(pages))
    ELSE LET token == strip(tokens[i]) IN
         IF token = <<>> THEN ParseTokens(tokens, i + 1, pages, max_page)
         ELSE IF PAGE_RE(token)
         THEN LET num == int(token) IN
              IF ~PageInBounds(num, max_page)
              THEN Raised("page_out_of_range", str(num))
              ELSE ParseTokens(tokens, i + 1, pages \cup {num - 1}, max_page)
         ELSE IF ~RANGE_RE(token)
         THEN Raised("format", token)
         ELSE LET h == HyphenAt(token)
                  a == int(SubSeq(token, 1, h - 1))
                  b == int(SubSeq(token, h + 1, Len(token)))
              IN IF RangeInverted(a, b) THEN Raised("range_inverted", token)
                 ELSE IF RangeOutOfBounds(a, b, max_page)
                 THEN Raised("range_out_of_range", token)
                 ELSE ParseTokens(tokens, i + 1, pages \cup RangeIndices(a, b), max_page)

parse_pages(spec, max_page) ==
    LET s == strip(spec) IN
    IF s = <<>> THEN Returned(<<>>)
    ELSE ParseTokens(split(s, ","), 1, {}, max_page)

(***************************************************************************)
(* update_page_spec_field: the selected pages to the page spec             *)
(***************************************************************************)

\* mutant: `page == prev` for `page == prev + 1`, so no run is ever extended
RECURSIVE CollectRanges_nomerge(_, _, _, _, _)
CollectRanges_nomerge(pages, i, start, prev, ranges) ==
    IF i > Len(pages) THEN Append(ranges, <<start, prev>>)
    ELSE IF pages[i] = prev
    THEN CollectRanges_nomerge(pages, i + 1, start, pages[i], ranges)
    ELSE CollectRanges_nomerge(pages, i + 1, pages[i], pages[i], Append(ranges, <<start, prev>>))

\* the loop that gathers runs of consecutive pages, from element i on
RECURSIVE CollectRanges(_, _, _, _, _)
CollectRanges(pages, i, start, prev, ranges) ==
    IF i > Len(pages) THEN Append(ranges, <<start, prev>>)
    ELSE IF pages[i] = prev + 1
    THEN CollectRanges(pages, i + 1, start, pages[i], ranges)
    ELSE CollectRanges(pages, i + 1, pages[i], pages[i], Append(ranges, <<start, prev>>))

\* f'{a}' if a == b else f'{a}-{b}'
SpecPart(a, b) == IF a = b THEN str(a) ELSE str(a) \o <<"-">> \o str(b)

\* the value update_page_spec_field gives the text field (Flet front-end)
PageSpecOf(selected_pages) ==
    IF selected_pages = {} THEN <<>>
    ELSE LET pages_1based == sorted({p + 1 : p \in selected_pages})
             ranges == CollectRanges(pages_1based, 2, pages_1based[1], pages_1based[1], <<>>)
             spec_parts == [k \in 1..Len(ranges) |-> SpecPart(ranges[k][1], ranges[k][2])]
         IN join(",", spec_parts)

\* the value update_page_spec_entry gives page_spec (Tkinter front-end): the
\* runs are gathered on the 0-based pages and 1 is added when formatting
PageSpecEntryOf(selected_pages) ==
    IF selected_pages = {} THEN <<>>
    ELSE LET pages == sorted(selected_pages)
             ranges == CollectRanges(pages, 2, pages[1], pages[1], <<>>)
             spec_parts == [k \in 1..Len(ranges) |->
                               SpecPart(ranges[k][1] + 1, ranges[k][2] + 1)]
         IN join(",", spec_parts)

(***************************************************************************)
(* The codec on its own: inputs drawn from bounded sets, the functions     *)
(* applied to them step by step                                            *)
(***************************************************************************)

VARIABLES
    pdf_path,            \* self.pdf_path: the document chosen last, NoDoc for ""
    save_path,           \* self.save_path
    selected_pages,      \* self.selected_pages: set of 0-based indices
    last_selected_page,  \* self.last_selected_page: 1-based, -1 for none
    reader,              \* self.reader: the document the PdfReader reads, NoDoc for None
    thumbnails,          \* self.thumbnails: whose pages they show, and how many
    thumbnail_grid,      \* self.thumbnail_grid.controls: the cards drawn
    page_spec_field,     \* self.page_spec_field.value
    status_text,         \* self.status_text.value
    loaders,             \* the threads running load_pdf_and_thumbnails
    last_op              \* history: the handler or worker step that ran last

fvars == <<pdf_path, save_path, selected_pages, last_selected_page, reader, thumbnails,
           thumbnail_grid, page_spec_field, status_text, loaders, last_op>>

VARIABLES
    tk_pdf_path,         \* self.pdf_path
    tk_page_spec,        \* self.page_spec, the text of the page-spec entry
    tk_selected_pages,   \* self.selected_pages
    tk_photo_images,     \* self.photo_images: whose pages they show, and how many
    tk_reader,           \* self.reader
    tk_inner,            \* the thumbnail frames in self.inner and their highlight
    tk_status,           \* self.status
    tk_loaders,          \* the threads running load_pdf_and_thumbnails
    tk_after,            \* populate_thumbnail_canvas calls queued by root.after
    tk_spec_age,         \* history: "previous" when page_spec was last written while an
                         \* earlier document's thumbnails were shown, else "current"
    tk_last_op           \* history: the handler or worker step that ran last

tvars == <<tk_pdf_path, tk_page_spec, tk_selected_pages, tk_photo_images, tk_reader,
           tk_inner, tk_status, tk_loaders, tk_after, tk_spec_age, tk_last_op>>

VARIABLES
    extractor,           \* the thread running extract_pages: its position, its argument
                         \* pages, the loop index, the pages added to its PdfWriter
    out_file,            \* the file written last by extract_pages
    dialog,              \* self.page.dialog: the dialog shown last by show_error / show_info
    progress_bar         \* self.progress_bar: visible, and value as a fraction <<n, d>>

jvars == <<extractor, out_file, dialog, progress_bar>>

VARIABLES
    splitter,            \* the thread running split_pages: its position, its argument
                         \* p_val, its locals total_pages, num_output_files, base_name
                         \* and the loop index
    split_files          \* history: the files written by the split_pages thread started
                         \* last, in the order written

svars == <<splitter, split_files>>

VARIABLES
    tk_save_path,        \* self.save_path of the Tkinter front-end
    tk_out_file          \* the file written last by run

kvars == <<tk_save_path, tk_out_file>>

VARIABLES cpc, cin, cout

cvars == <<cpc, cin, cout>>

\* the largest page count of a selection set given to the serializer
MaxN == 11

\* the largest number of comma-separated tokens of a spec given to the parser
MaxTokens == 3

\* the page counts the parser is called with
MaxPageInputs == {0, 5, 10}

\* the tokens the specs are built from: what the token is (k, a, b) and the
\* text the user types for it
TokenVocab ==
    { [k |-> "page",  a |-> 1,  b |-> 1,  text |-> <<"1">>],
      [k |-> "page",  a |-> 2,  b |-> 2,  text |-> <<"2">>],
      [k |-> "page",  a |-> 3,  b |-> 3,  text |-> <<" ", "3", " ">>],
      [k |-> "page",  a |-> 0,  b |-> 0,  text |-> <<"0">>],
      [k |-> "page",  a |-> 6,  b |-> 6,  text |-> <<"6">>],
      [k |-> "page",  a |-> 10, b |-> 10, text |-> <<"1", "0">>],
      [k |-> "range", a |-> 1,  b |-> 3,  text |-> <<"1", "-", "3">>],
      [k |-> "range", a |-> 3,  b |-> 2,  text |-> <<"3", "-", "2">>],
      [k |-> "range", a |-> 3,  b |-> 5,  text |-> <<"3", "-", "5">>],
      [k |-> "range", a |-> 0,  b |-> 2,  text |-> <<"0", "-", "2">>],
      [k |-> "range", a |-> 5,  b |-> 6,  text |-> <<" ", "5", "-", "6">>],
      [k |-> "blank", a |-> 0,  b |-> 0,  text |-> <<>>],
      [k |-> "blank", a |-> 0,  b |-> 0,  text |-> <<" ">>],
      [k |-> "bad",   a |-> 0,  b |-> 0,  text |-> <<"a", "b", "c">>],
      [k |-> "bad",   a |-> 0,  b |-> 0,  text |-> <<"1", "-">>],
      [k |-> "bad",   a |-> 0,  b |-> 0,  text |-> <<"-", "3">>],
      [k |-> "bad",   a |-> 0,  b |-> 0,  text |-> <<"1", " ", "-", " ", "3">>],
      [k |-> "bad",   a |-> 0,  b |-> 0,  text |-> <<"1", "-", "2", "-", "3">>] }

TokenSeqs == UNION {[1..n -> TokenVocab] : n \in 0..MaxTokens}

\* the spec the user types for a sequence of tokens
SpecText(toks) == join(",", [i \in 1..Len(toks) |-> toks[i].text])

SetInputs ==
    UNION {{[kind |-> "set", N |-> n, S |-> s, toks |-> <<>>] : s \in SUBSET (0..(n - 1))}
              : n \in 0..MaxN}

SpecInputs ==
    {[kind |-> "spec", N |-> m, S |-> {}, toks |-> t] : m \in MaxPageInputs, t \in TokenSeqs}

NoResult == [ok |-> FALSE, pages |-> <<>>, exc |-> "", site |-> "none", arg |-> <<>>]

CodecInit ==
    /\ cpc = "ready"
    /\ cin \in SetInputs \cup SpecInputs
    /\ cout = [spec |-> <<>>, entry |-> <<>>, res |-> NoResult, spec2 |-> <<>>]

\* serialize(S), by both front-ends
Serialize ==
    /\ cpc = "ready" /\ cin.kind = "set"
    /\ cout' = [cout EXCEPT !.spec = PageSpecOf(cin.S), !.entry = PageSpecEntryOf(cin.S)]
    /\ cpc' = "serialized"
    /\ UNCHANGED <<cin, fvars, tvars, jvars, svars, kvars>>

\* parse(serialize(S), N)
ParseBack ==
    /\ cpc = "serialized"
    /\ cout' = [cout EXCEPT !.res = parse_pages(cout.spec, cin.N)]
    /\ cpc' = "parsed_back"
    /\ UNCHANGED <<cin, fvars, tvars, jvars, svars, kvars>>

\* serialize(parse(serialize(S)))
Reserialize ==
    /\ cpc = "parsed_back" /\ cout.res.ok
    /\ cout' = [cout EXCEPT !.spec2 = PageSpecOf(SeqToSet(cout.res.pages))]
    /\ cpc' = "reserialized"
    /\ UNCHANGED <<cin, fvars, tvars, jvars, svars, kvars>>

\* parse(spec, maxPage) of a typed spec
Parse ==
    /\ cpc = "ready" /\ cin.kind = "spec"
    /\ cout' = [cout EXCEPT !.res = parse_pages(SpecText(cin.toks), cin.N)]
    /\ cpc' = "parsed"
    /\ UNCHANGED <<cin, fvars, tvars, jvars, svars, kvars>>

CodecNext == Serialize \/ ParseBack \/ Reserialize \/ Parse

(***************************************************************************)
(* The Flet front-end (pdf_extractor_flet.pyw): PDFExtractorApp            *)
(***************************************************************************)

RECURSIVE GCD(_, _)
GCD(a, b) == IF b = 0 THEN a ELSE GCD(b, a % b)

\* n / d, the value given to self.progress_bar.value, in lowest terms
Fraction(n, d) == <<n \div GCD(n, d), d \div GCD(n, d)>>

\* the PDF files the user can pick
Docs == {"A", "B", "Enc"}

NoDoc == "none"

\* len(PdfReader(path).pages)
PageCount(d) ==
    CASE d = "A" -> 3 [] d = "B" -> 2 [] d = "Big" -> 101 [] d = "Empty" -> 0 [] OTHER -> 4

\* reader.is_encrypted
IsEncrypted(d) == d = "Enc"

\* the most load_pdf_and_thumbnails threads alive at once
MaxLoaders == 2

\* the thumbnails the user clicks on
ClickPages == {1, 2, 3}

\* the texts the user types into the page-spec field
TextInputs ==
    { <<>>,
      <<"1">>,
      <<"2", ",", "1">>,
      <<"2", "-", "3">>,
      <<"1", ",", "a", "b", "c">> }

\* min(total_pages, 100): thumbnails are made for the first 100 pages only
MaxThumbPages == 100

Min(a, b) == IF a <= b THEN a ELSE b

NoThumbnails == [doc |-> NoDoc, n |-> 0]

EmptyGrid == [doc |-> NoDoc, n |-> 0, hl |-> {}]

Idle == [pc |-> "idle", path |-> NoDoc]

\* populate_file_based_thumbnail_grid: one card per thumbnail, drawn
\* highlighted when its index is in selected_pages at that moment
GridOf(thumbs, selected) ==
    [doc |-> thumbs.doc, n |-> thumbs.n, hl |-> {idx \in 0..(thumbs.n - 1) : idx \in selected}]

\* set_default_save_path: <dir>/<base>_extr.pdf
DefaultSavePath(d) == <<d, "_extr.pdf">>

\* len(self.reader.pages), 0 while no reader is set
totalPages == IF reader = NoDoc THEN 0 ELSE PageCount(reader)

FletInit ==
    /\ pdf_path = NoDoc
    /\ save_path = <<>>
    /\ selected_pages = {}
    /\ last_selected_page = -1
    /\ reader = NoDoc
    /\ thumbnails = NoThumbnails
    /\ thumbnail_grid = EmptyGrid
    /\ page_spec_field = <<>>
    /\ status_text = <<"waiting">>
    /\ loaders = [w \in 1..MaxLoaders |-> Idle]
    /\ last_op = "init"

\* select_pdf, a file picked: clear_thumbnails and a new loader thread
SelectPdf(d) ==
    /\ \E w \in 1..MaxLoaders : loaders[w].pc = "idle"
    /\ LET w == SetMin({v \in 1..MaxLoaders : loaders[v].pc = "idle"})
       IN loaders' = [loaders EXCEPT ![w] = [pc |-> "cleanup", path |-> d]]
    /\ pdf_path' = d
    /\ thumbnail_grid' = EmptyGrid
    /\ thumbnails' = NoThumbnails
    /\ selected_pages' = {}
    /\ last_selected_page' = -1
    /\ page_spec_field' = <<>>
    /\ save_path' = <<>>
    /\ status_text' = <<"loading">>
    /\ last_op' = "select_pdf"
    /\ UNCHANGED <<cvars, tvars, svars, kvars, jvars, reader>>

\* select_save, a path picked
SelectSave ==
    /\ save_path' = <<"user.pdf">>
    /\ save_path' # save_path
    /\ last_op' = "select_save"
    /\ UNCHANGED <<cvars, tvars, svars, kvars, jvars, pdf_path, selected_pages, last_selected_page, reader, thumbnails,
                   thumbnail_grid, page_spec_field, status_text, loaders>>

\* load_pdf_and_thumbnails, first step: cleanup_resources
LoadCleanup(w) ==
    /\ loaders[w].pc = "cleanup"
    /\ reader' = NoDoc
    /\ thumbnails' = NoThumbnails
    /\ selected_pages' = {}
    /\ last_selected_page' = -1
    /\ loaders' = [loaders EXCEPT ![w].pc = "read"]
    /\ last_op' = "cleanup_resources"
    /\ UNCHANGED <<cvars, tvars, svars, kvars, jvars, pdf_path, save_path, thumbnail_grid, page_spec_field, status_text>>

\* load_pdf_and_thumbnails: PdfReader(path), the encryption test, self.reader,
\* set_default_save_path; an unreadable document ends in the except branch
LoadRead(w) ==
    /\ loaders[w].pc = "read"
    /\ LET path == loaders[w].path IN
       IF IsEncrypted(path)
       THEN /\ status_text' = <<"load_failed">>
            /\ dialog' = <<"error", "load">>
            /\ reader' = NoDoc
            /\ progress_bar' = [progress_bar EXCEPT !.visible = FALSE]
            /\ loaders' = [loaders EXCEPT ![w] = Idle]
            /\ last_op' = "load:failed"
            /\ UNCHANGED save_path
       ELSE /\ reader' = path
            /\ save_path' = DefaultSavePath(path)
            /\ UNCHANGED dialog
            /\ IF PageCount(path) = 0
               THEN /\ status_text' = <<"load_complete", 0>>
                    /\ progress_bar' = [progress_bar EXCEPT !.visible = FALSE]
                    /\ loaders' = [loaders EXCEPT ![w] = Idle]
                    /\ last_op' = "load:no_pages"
               ELSE /\ status_text' = <<"generating_thumbnails">>
                    /\ progress_bar' = [visible |-> TRUE, value |-> Fraction(0, 1)]
                    /\ loaders' = [loaders EXCEPT ![w].pc = "convert"]
                    /\ last_op' = "load:reader_set"
    /\ UNCHANGED <<cvars, tvars, svars, kvars, extractor, out_file, pdf_path, selected_pages,
                   last_selected_page, thumbnails, thumbnail_grid, page_spec_field>>

\* load_pdf_and_thumbnails: convert_from_path and the resize loop, which
\* leaves the progress bar at (idx + 1) / max_thumb_pages of its last turn,
\* then self.thumbnails = thumbnails
LoadConvert(w) ==
    /\ loaders[w].pc = "convert"
    /\ thumbnails' = [doc |-> loaders[w].path,
                      n |-> Min(PageCount(loaders[w].path), MaxThumbPages)]
    /\ progress_bar' = [progress_bar EXCEPT !.value = Fraction(thumbnails'.n, thumbnails'.n)]
    /\ loaders' = [loaders EXCEPT ![w].pc = "populate"]
    /\ last_op' = "load:thumbnails_set"
    /\ UNCHANGED <<cvars, tvars, svars, kvars, extractor, out_file, dialog, pdf_path, save_path, selected_pages, last_selected_page, reader,
                   thumbnail_grid, page_spec_field, status_text>>

\* load_pdf_and_thumbnails: convert_from_path raises, the except branch
LoadConvertFails(w) ==
    /\ loaders[w].pc = "convert"
    /\ status_text' = <<"load_failed">>
    /\ dialog' = <<"error", "load">>
    /\ reader' = NoDoc
    /\ progress_bar' = [progress_bar EXCEPT !.visible = FALSE]
    /\ loaders' = [loaders EXCEPT ![w] = Idle]
    /\ last_op' = "load:failed"
    /\ UNCHANGED <<cvars, tvars, svars, kvars, extractor, out_file, pdf_path, save_path, selected_pages, last_selected_page, thumbnails,
                   thumbnail_grid, page_spec_field>>

\* load_pdf_and_thumbnails, last step: populate_file_based_thumbnail_grid, the
\* final status, and the progress bar hidden by the finally block
LoadPopulate(w) ==
    /\ loaders[w].pc = "populate"
    /\ thumbnail_grid' = GridOf(thumbnails, selected_pages)
    /\ status_text' = <<"load_complete", PageCount(loaders[w].path)>>
    /\ progress_bar' = [progress_bar EXCEPT !.visible = FALSE]
    /\ loaders' = [loaders EXCEPT ![w] = Idle]
    /\ last_op' = "load:complete"
    /\ UNCHANGED <<cvars, tvars, svars, kvars, extractor, out_file, dialog, pdf_path, save_path, selected_pages, last_selected_page, reader,
                   thumbnails, page_spec_field>>

\* mutant: toggle_single_page that never removes a page
toggle_single_page_addonly(selected, page_number) ==
    selected \cup {page_number - 1}

\* toggle_single_page: the selection with page_number flipped
toggle_single_page(selected, page_number) ==
    LET idx == page_number - 1 IN
    IF idx \in selected THEN selected \ {idx} ELSE selected \cup {idx}

\* select_page_range: the selection with the pages between the two ends added,
\* as far as they have a thumbnail
select_page_range(selected, start_page, end_page, n_thumbnails) ==
    LET min_page == Min(start_page, end_page)
        max_page == IF start_page >= end_page THEN start_page ELSE end_page
    IN selected \cup {page_num - 1 : page_num \in
                         {q \in min_page..max_page : 0 <= q - 1 /\ q - 1 < n_thumbnails}}

\* mutant: the selection assigned whether parse_pages returned or raised
SpecChangeSelection_always(res, selected) == SeqToSet(res.pages)

\* on_page_spec_change, the try block: the selection after parse_pages
\* returned or raised
SpecChangeSelection(res, selected) ==
    IF res.ok THEN SeqToSet(res.pages) ELSE selected

\* mutant: toggle_page without its call of update_page_spec_field
TogglePage_nofield(page_number) ==
    /\ page_number \in 1..thumbnail_grid.n
    /\ selected_pages' = toggle_single_page(selected_pages, page_number)
    /\ thumbnail_grid' = GridOf(thumbnails, selected_pages')
    /\ last_op' = "toggle_page"
    /\ UNCHANGED <<cvars, tvars, svars, kvars, jvars, pdf_path, save_path, last_selected_page, reader, thumbnails,
                   status_text, loaders, page_spec_field>>

\* toggle_page, the on_click of every card of the grid
TogglePage(page_number) ==
    /\ page_number \in 1..thumbnail_grid.n
    /\ selected_pages' = toggle_single_page(selected_pages, page_number)
    /\ page_spec_field' = PageSpecOf(selected_pages')
    /\ thumbnail_grid' = GridOf(thumbnails, selected_pages')
    /\ last_op' = "toggle_page"
    /\ UNCHANGED <<cvars, tvars, svars, kvars, jvars, pdf_path, save_path, last_selected_page, reader, thumbnails,
                   status_text, loaders>>

\* handle_page_click: the click handler with shift support
HandlePageClick(shift, page_number) ==
    /\ page_number \in 1..thumbnail_grid.n
    /\ selected_pages' =
          IF shift /\ last_selected_page >= 0
          THEN select_page_range(selected_pages, last_selected_page, page_number,
                                 thumbnails.n)
          ELSE toggle_single_page(selected_pages, page_number)
    /\ last_selected_page' = page_number
    /\ page_spec_field' = PageSpecOf(selected_pages')
    /\ thumbnail_grid' = GridOf(thumbnails, selected_pages')
    /\ last_op' = IF shift /\ last_selected_page >= 0
                  THEN "handle_page_click:range" ELSE "handle_page_click:toggle"
    /\ UNCHANGED <<cvars, tvars, svars, kvars, jvars, pdf_path, save_path, reader, thumbnails, status_text, loaders>>

\* select_all_pages
SelectAllPages ==
    /\ thumbnails.n > 0
    /\ selected_pages' = 0..(thumbnails.n - 1)
    /\ last_selected_page' = thumbnails.n
    /\ page_spec_field' = PageSpecOf(selected_pages')
    /\ thumbnail_grid' = GridOf(thumbnails, selected_pages')
    /\ last_op' = "select_all_pages"
    /\ UNCHANGED <<cvars, tvars, svars, kvars, jvars, pdf_path, save_path, reader, thumbnails, status_text, loaders>>

\* mutant: deselect_all_pages without the reset of last_selected_page
DeselectAllPages_keepanchor ==
    /\ selected_pages' = {}
    /\ page_spec_field' = PageSpecOf(selected_pages')
    /\ thumbnail_grid' = GridOf(thumbnails, selected_pages')
    /\ last_op' = "deselect_all_pages"
    /\ UNCHANGED <<cvars, tvars, svars, kvars, jvars, pdf_path, save_path, reader, thumbnails, status_text, loaders,
                   last_selected_page>>

\* deselect_all_pages
DeselectAllPages ==
    /\ selected_pages' = {}
    /\ last_selected_page' = -1
    /\ page_spec_field' = PageSpecOf(selected_pages')
    /\ thumbnail_grid' = GridOf(thumbnails, selected_pages')
    /\ last_op' = "deselect_all_pages"
    /\ UNCHANGED <<cvars, tvars, svars, kvars, jvars, pdf_path, save_path, reader, thumbnails, status_text, loaders>>

\* on_page_spec_change: the user has changed the text of the field to `text`
OnPageSpecChange(text) ==
    /\ text # page_spec_field
    /\ page_spec_field' = text
    /\ IF thumbnails.n = 0 \/ strip(text) = <<>>
       THEN /\ selected_pages' = selected_pages
            /\ last_op' = "on_page_spec_change:return"
       ELSE LET res == parse_pages(text, thumbnails.n) IN
            /\ selected_pages' = SpecChangeSelection(res, selected_pages)
            /\ last_op' = IF res.ok THEN "on_page_spec_change:parsed"
                          ELSE "on_page_spec_change:error"
    /\ UNCHANGED <<cvars, tvars, svars, kvars, jvars, pdf_path, save_path, last_selected_page, reader, thumbnails,
                   thumbnail_grid, status_text, loaders>>

\* the application as it is wired: the cards call toggle_page
Next ==
    \/ \E d \in Docs : SelectPdf(d)
    \/ SelectSave
    \/ \E w \in 1..MaxLoaders : LoadCleanup(w)
    \/ \E w \in 1..MaxLoaders : LoadRead(w)
    \/ \E w \in 1..MaxLoaders : LoadConvert(w)
    \/ \E w \in 1..MaxLoaders : LoadConvertFails(w)
    \/ \E w \in 1..MaxLoaders : LoadPopulate(w)
    \/ \E p \in ClickPages : TogglePage(p)
    \/ SelectAllPages
    \/ DeselectAllPages
    \/ \E t \in TextInputs : OnPageSpecChange(t)

\* the application with its cards calling handle_page_click, as
\* populate_real_thumbnail_grid wires them
NextApi ==
    \/ Next
    \/ \E p \in ClickPages, shift \in BOOLEAN : HandlePageClick(shift, p)

\* the texts typed into the page-spec field of a document of 101 pages
BigTextInputs ==
    { <<>>,
      <<"2">>,
      <<"1", "0", "1">>,
      <<"1", "0", "0", "-", "1", "0", "1">> }

\* the application as it is wired, on a document with more pages than get a
\* thumbnail
NextBig ==
    \/ SelectPdf("Big")
    \/ \E w \in 1..MaxLoaders : LoadCleanup(w)
    \/ \E w \in 1..MaxLoaders : LoadRead(w)
    \/ \E w \in 1..MaxLoaders : LoadConvert(w)
    \/ \E w \in 1..MaxLoaders : LoadConvertFails(w)
    \/ \E w \in 1..MaxLoaders : LoadPopulate(w)
    \/ \E p \in ClickPages : TogglePage(p)
    \/ SelectAllPages
    \/ DeselectAllPages
    \/ \E t \in BigTextInputs : OnPageSpecChange(t)

(***************************************************************************)
(* The Flet front-end: run_extract and the extract_pages thread            *)
(***************************************************************************)

\* self.reader.metadata is not empty
HasMetadata(d) == d = "A"

\* the PdfWriter and loop state of extract_pages; doc and path are history:
\* the document and the save path at the moment run_extract started the thread
NoExtractor ==
    [pc |-> "idle", pages |-> <<>>, i |-> 0, writer |-> <<>>, meta |-> NoDoc,
     doc |-> NoDoc, path |-> <<>>]

NoFile == [path |-> <<>>, pages |-> <<>>, meta |-> NoDoc, doc |-> NoDoc, seq |-> <<>>]

NoDialog == <<"none", "">>

\* ft.ProgressBar(visible=False): no value given
NoProgress == [visible |-> FALSE, value |-> <<0, 0>>]

\* no split_pages thread
NoSplitter ==
    [pc |-> "idle", p |-> 0, total |-> 0, num |-> 0, base |-> <<>>, i |-> 0, doc |-> NoDoc]

JobsInit ==
    /\ extractor = NoExtractor
    /\ out_file = NoFile
    /\ dialog = NoDialog
    /\ progress_bar = NoProgress
    /\ splitter = NoSplitter
    /\ split_files = <<>>

\* mutant: run_extract without its test of an empty page list
RunExtractOutcome_noempty(rdr, text, path) ==
    IF rdr = NoDoc THEN [err |-> "no_reader", pages |-> <<>>]
    ELSE LET res == parse_pages(text, PageCount(rdr)) IN
         IF ~res.ok THEN [err |-> res.site, pages |-> <<>>]
         ELSE IF path = <<>> THEN [err |-> "no_save_path", pages |-> <<>>]
         ELSE [err |-> "", pages |-> res.pages]

\* run_extract: what the button does, given the reader, the text of the field
\* and the save path: the error shown, or "" and the pages handed to the thread
RunExtractOutcome(rdr, text, path) ==
    IF rdr = NoDoc THEN [err |-> "no_reader", pages |-> <<>>]
    ELSE LET res == parse_pages(text, PageCount(rdr)) IN
         IF ~res.ok THEN [err |-> res.site, pages |-> <<>>]
         ELSE IF res.pages = <<>> THEN [err |-> "no_pages", pages |-> <<>>]
         ELSE IF path = <<>> THEN [err |-> "no_save_path", pages |-> <<>>]
         ELSE [err |-> "", pages |-> res.pages]

\* run_extract, the extract button
RunExtract ==
    /\ extractor.pc = "idle"
    /\ LET o == RunExtractOutcome(reader, page_spec_field, save_path) IN
       IF o.err = ""
       THEN /\ extractor' = [pc |-> "start", pages |-> o.pages, i |-> 1, writer |-> <<>>,
                             meta |-> NoDoc, doc |-> reader, path |-> save_path]
            /\ last_op' = "run_extract:started"
            /\ UNCHANGED dialog
       ELSE /\ dialog' = <<"error", o.err>>
            /\ last_op' = "run_extract:error"
            /\ UNCHANGED extractor
    /\ UNCHANGED <<cvars, tvars, svars, kvars, out_file, progress_bar, pdf_path, save_path, selected_pages,
                   last_selected_page, reader, thumbnails, thumbnail_grid, page_spec_field,
                   status_text, loaders>>

\* extract_pages: the progress bar shown and the status set
ExtractStart ==
    /\ extractor.pc = "start"
    /\ progress_bar' = [visible |-> TRUE, value |-> Fraction(0, 1)]
    /\ status_text' = <<"extracting">>
    /\ extractor' = [extractor EXCEPT !.pc = "add"]
    /\ last_op' = "extract_pages:start"
    /\ UNCHANGED <<cvars, tvars, svars, kvars, out_file, dialog, pdf_path, save_path, selected_pages,
                   last_selected_page, reader, thumbnails, thumbnail_grid, page_spec_field, loaders>>

\* extract_pages, one turn of the loop: writer.add_page(self.reader.pages[page_idx])
ExtractAddPage ==
    /\ extractor.pc = "add"
    /\ extractor.i <= Len(extractor.pages)
    /\ reader # NoDoc
    /\ extractor.pages[extractor.i] < PageCount(reader)
    /\ extractor' = [extractor EXCEPT
                        !.writer = Append(@, <<reader, extractor.pages[extractor.i]>>),
                        !.i = @ + 1]
    /\ progress_bar' = [progress_bar EXCEPT
                           !.value = Fraction(extractor.i, Len(extractor.pages))]
    /\ last_op' = "extract_pages:add_page"
    /\ UNCHANGED <<cvars, tvars, svars, kvars, out_file, dialog, pdf_path, save_path, selected_pages,
                   last_selected_page, reader, thumbnails, thumbnail_grid, page_spec_field,
                   status_text, loaders>>

\* extract_pages, after the loop: writer.add_metadata(self.reader.metadata)
ExtractMetadata ==
    /\ extractor.pc = "add"
    /\ extractor.i > Len(extractor.pages)
    /\ reader # NoDoc
    /\ extractor' = [extractor EXCEPT
                        !.meta = IF HasMetadata(reader) THEN reader ELSE NoDoc,
                        !.pc = "write"]
    /\ last_op' = "extract_pages:metadata"
    /\ UNCHANGED <<cvars, tvars, svars, kvars, out_file, dialog, progress_bar, pdf_path, save_path, selected_pages,
                   last_selected_page, reader, thumbnails, thumbnail_grid, page_spec_field,
                   status_text, loaders>>

\* extract_pages: open(self.save_path, 'wb'), writer.write, the final status
\* and the info dialog
ExtractWrite ==
    /\ extractor.pc = "write"
    /\ save_path # <<>>
    /\ out_file' = [path |-> save_path, pages |-> extractor.writer, meta |-> extractor.meta,
                    doc |-> extractor.doc, seq |-> extractor.pages]
    /\ status_text' = <<"extracted", Len(extractor.pages)>>
    /\ dialog' = <<"info", "saved">>
    /\ progress_bar' = [progress_bar EXCEPT !.visible = FALSE]
    /\ extractor' = NoExtractor
    /\ last_op' = "extract_pages:done"
    /\ UNCHANGED <<cvars, tvars, svars, kvars, pdf_path, save_path, selected_pages, last_selected_page, reader,
                   thumbnails, thumbnail_grid, page_spec_field, loaders>>

\* extract_pages, the except branch: self.reader is None, the page index is
\* beyond the reader's pages, or self.save_path is empty
ExtractFails ==
    /\ \/ /\ extractor.pc = "add"
          /\ \/ reader = NoDoc
             \/ /\ extractor.i <= Len(extractor.pages)
                /\ extractor.pages[extractor.i] >= PageCount(reader)
       \/ /\ extractor.pc = "write"
          /\ save_path = <<>>
    /\ status_text' = <<"extract_failed">>
    /\ dialog' = <<"error", "extract">>
    /\ progress_bar' = [progress_bar EXCEPT !.visible = FALSE]
    /\ extractor' = NoExtractor
    /\ last_op' = "extract_pages:failed"
    /\ UNCHANGED <<cvars, tvars, svars, kvars, out_file, pdf_path, save_path, selected_pages, last_selected_page,
                   reader, thumbnails, thumbnail_grid, page_spec_field, loaders>>

\* the documents a session of the extract button starts with: none loaded, or
\* one with pages
LoadedDocs == {NoDoc, "A", "B"}

\* the front-end after select_pdf(d) and its load have completed (or with no
\* document chosen yet) and the user has typed text into the page-spec field
Loaded(d, text) ==
    /\ pdf_path = d
    /\ reader = d
    /\ save_path = IF d = NoDoc THEN <<>> ELSE DefaultSavePath(d)
    /\ thumbnails = IF d = NoDoc THEN NoThumbnails
                    ELSE [doc |-> d, n |-> Min(PageCount(d), MaxThumbPages)]
    /\ thumbnail_grid = GridOf(thumbnails, {})
    /\ last_selected_page = -1
    /\ page_spec_field = text
    /\ selected_pages = IF thumbnails.n = 0 \/ strip(text) = <<>> THEN {}
                        ELSE SpecChangeSelection(parse_pages(text, thumbnails.n), {})
    /\ status_text = IF d = NoDoc THEN <<"waiting">> ELSE <<"load_complete", PageCount(d)>>
    /\ loaders = [w \in 1..MaxLoaders |-> Idle]
    /\ last_op = IF text = <<>> THEN (IF d = NoDoc THEN "init" ELSE "load:complete")
                 ELSE IF thumbnails.n = 0 \/ strip(text) = <<>> THEN "on_page_spec_change:return"
                 ELSE IF parse_pages(text, thumbnails.n).ok THEN "on_page_spec_change:parsed"
                 ELSE "on_page_spec_change:error"

\* the front-end after the load of d has completed, select_pdf(d2) has been
\* pressed and cleared the grid, the selection, the field and the save path,
\* and the user has typed text into the field before the new load thread has
\* taken its first step
Reselected(d, d2, text) ==
    /\ pdf_path = d2
    /\ reader = d
    /\ save_path = <<>>
    /\ thumbnails = NoThumbnails
    /\ thumbnail_grid = EmptyGrid
    /\ last_selected_page = -1
    /\ page_spec_field = text
    /\ selected_pages = {}
    /\ status_text = <<"loading">>
    /\ loaders = [w \in 1..MaxLoaders |-> IF w = 1 THEN [pc |-> "cleanup", path |-> d2] ELSE Idle]
    /\ last_op = IF text = <<>> THEN "select_pdf" ELSE "on_page_spec_change:return"

\* the application as it is wired, with the extract button
NextExtract ==
    \/ \E d \in Docs : SelectPdf(d)
    \/ \E w \in 1..MaxLoaders : LoadCleanup(w)
    \/ \E w \in 1..MaxLoaders : LoadRead(w)
    \/ \E w \in 1..MaxLoaders : LoadConvert(w)
    \/ \E w \in 1..MaxLoaders : LoadConvertFails(w)
    \/ \E w \in 1..MaxLoaders : LoadPopulate(w)
    \/ RunExtract
    \/ ExtractStart
    \/ ExtractAddPage
    \/ ExtractMetadata
    \/ ExtractWrite
    \/ ExtractFails

(***************************************************************************)
(* The Tkinter front-end: PDFExtractorApp                                  *)
(***************************************************************************)

NoFrames == [n |-> 0, hl |-> {}]

TkInit ==
    /\ tk_pdf_path = NoDoc
    /\ tk_page_spec = <<>>
    /\ tk_selected_pages = {}
    /\ tk_photo_images = NoThumbnails
    /\ tk_reader = NoDoc
    /\ tk_inner = NoFrames
    /\ tk_status = "waiting"
    /\ tk_loaders = [w \in 1..MaxLoaders |-> Idle]
    /\ tk_after = 0
    /\ tk_spec_age = "current"
    /\ tk_last_op = "init"
    /\ tk_save_path = <<>>
    /\ tk_out_file = NoFile

\* select_pdf, a file chosen: clear_thumbnails and a new loader thread
TkSelectPdf(d) ==
    /\ \E w \in 1..MaxLoaders : tk_loaders[w].pc = "idle"
    /\ LET w == SetMin({v \in 1..MaxLoaders : tk_loaders[v].pc = "idle"})
       IN tk_loaders' = [tk_loaders EXCEPT ![w] = [pc |-> "read", path |-> d]]
    /\ tk_pdf_path' = d
    /\ tk_status' = "loading"
    /\ tk_inner' = NoFrames
    /\ tk_photo_images' = NoThumbnails
    /\ tk_selected_pages' = {}
    /\ tk_spec_age' = IF tk_page_spec # <<>> /\ tk_inner.n > 0 THEN "previous" ELSE tk_spec_age
    /\ tk_last_op' = "select_pdf"
    /\ UNCHANGED <<cvars, fvars, svars, kvars, jvars, tk_page_spec, tk_reader, tk_after>>

\* load_pdf_and_thumbnails: PdfReader(path), the encryption test, self.reader
TkLoadRead(w) ==
    /\ tk_loaders[w].pc = "read"
    /\ IF IsEncrypted(tk_loaders[w].path)
       THEN /\ tk_status' = "failed"
            /\ tk_loaders' = [tk_loaders EXCEPT ![w] = Idle]
            /\ tk_last_op' = "load:failed"
            /\ UNCHANGED tk_reader
       ELSE /\ tk_reader' = tk_loaders[w].path
            /\ tk_status' = "generating_thumbnails"
            /\ tk_loaders' = [tk_loaders EXCEPT ![w].pc = "convert"]
            /\ tk_last_op' = "load:reader_set"
    /\ UNCHANGED <<cvars, fvars, svars, kvars, jvars, tk_pdf_path, tk_page_spec, tk_selected_pages,
                   tk_photo_images, tk_inner, tk_after, tk_spec_age>>

\* load_pdf_and_thumbnails: convert_from_path, self.photo_images, and
\* root.after(0, self.populate_thumbnail_canvas)
TkLoadConvert(w) ==
    /\ tk_loaders[w].pc = "convert"
    /\ tk_after < MaxLoaders
    /\ tk_photo_images' = [doc |-> tk_loaders[w].path, n |-> PageCount(tk_loaders[w].path)]
    /\ tk_after' = tk_after + 1
    /\ tk_status' = "load_complete"
    /\ tk_loaders' = [tk_loaders EXCEPT ![w] = Idle]
    /\ tk_last_op' = "load:complete"
    /\ UNCHANGED <<cvars, fvars, svars, kvars, jvars, tk_pdf_path, tk_page_spec, tk_selected_pages, tk_reader,
                   tk_inner, tk_spec_age>>

\* load_pdf_and_thumbnails: convert_from_path raises, the except branch
TkLoadConvertFails(w) ==
    /\ tk_loaders[w].pc = "convert"
    /\ tk_status' = "failed"
    /\ tk_loaders' = [tk_loaders EXCEPT ![w] = Idle]
    /\ tk_last_op' = "load:failed"
    /\ UNCHANGED <<cvars, fvars, svars, kvars, jvars, tk_pdf_path, tk_page_spec, tk_selected_pages,
                   tk_photo_images, tk_reader, tk_inner, tk_after, tk_spec_age>>

\* populate_thumbnail_canvas, run by the main loop: the frames of the new
\* document, none highlighted, and the selection cleared
TkPopulateThumbnailCanvas ==
    /\ tk_after > 0
    /\ tk_after' = tk_after - 1
    /\ tk_selected_pages' = {}
    /\ tk_inner' = [n |-> tk_photo_images.n, hl |-> {}]
    /\ tk_last_op' = "populate_thumbnail_canvas"
    /\ UNCHANGED <<cvars, fvars, svars, kvars, jvars, tk_pdf_path, tk_page_spec, tk_photo_images, tk_reader,
                   tk_status, tk_loaders, tk_spec_age>>

\* toggle_page, bound to a click on a thumbnail frame
TkTogglePage(page_number) ==
    /\ page_number \in 1..tk_inner.n
    /\ LET idx == page_number - 1 IN
       IF idx \in tk_selected_pages
       THEN /\ tk_selected_pages' = tk_selected_pages \ {idx}
            /\ tk_inner' = [tk_inner EXCEPT !.hl = @ \ {idx}]
       ELSE /\ tk_selected_pages' = tk_selected_pages \cup {idx}
            /\ tk_inner' = [tk_inner EXCEPT !.hl = @ \cup {idx}]
    /\ tk_page_spec' = PageSpecEntryOf(tk_selected_pages')
    /\ tk_spec_age' = "current"
    /\ tk_last_op' = "toggle_page"
    /\ UNCHANGED <<cvars, fvars, svars, kvars, jvars, tk_pdf_path, tk_photo_images, tk_reader, tk_status,
                   tk_loaders, tk_after>>

\* the user types into the page-spec entry, which is bound to self.page_spec
\* and to no handler
TkEditPageSpec(text) ==
    /\ text # tk_page_spec
    /\ tk_page_spec' = text
    /\ tk_spec_age' = "current"
    /\ tk_last_op' = "edit_page_spec"
    /\ UNCHANGED <<cvars, fvars, svars, kvars, jvars, tk_pdf_path, tk_selected_pages, tk_photo_images, tk_reader,
                   tk_inner, tk_status, tk_loaders, tk_after>>

\* select_save, a path chosen in the save dialog
TkSelectSave ==
    /\ tk_save_path' = <<"user.pdf">>
    /\ tk_save_path' # tk_save_path
    /\ tk_last_op' = "select_save"
    /\ UNCHANGED <<cvars, fvars, svars, jvars, tk_out_file, tk_pdf_path, tk_page_spec,
                   tk_selected_pages, tk_photo_images, tk_reader, tk_inner, tk_status,
                   tk_loaders, tk_after, tk_spec_age>>

\* run, the extract button, on the main thread: the tests, the overwrite
\* confirmation answered by confirm, the loop over the pages, the file written
TkRun(confirm) ==
    /\ LET o == RunExtractOutcome(tk_reader, tk_page_spec, tk_save_path) IN
       IF o.err = "no_reader"
       THEN /\ tk_last_op' = "run:no_reader"
            /\ UNCHANGED <<tk_status, tk_out_file>>
       ELSE IF o.err # ""
       THEN /\ tk_status' = "failed"
            /\ tk_last_op' = "run:error"
            /\ UNCHANGED tk_out_file
       ELSE IF tk_out_file.path = tk_save_path /\ ~confirm
       THEN /\ tk_last_op' = "run:declined"
            /\ UNCHANGED <<tk_status, tk_out_file>>
       ELSE /\ tk_out_file' =
                  [path |-> tk_save_path,
                   pages |-> [i \in 1..Len(o.pages) |-> <<tk_reader, o.pages[i]>>],
                   meta |-> IF HasMetadata(tk_reader) THEN tk_reader ELSE NoDoc,
                   doc |-> tk_reader,
                   seq |-> o.pages]
            /\ tk_status' = "extracted"
            /\ tk_last_op' = IF tk_out_file.path = tk_save_path THEN "run:overwritten"
                             ELSE "run:done"
    /\ UNCHANGED <<cvars, fvars, svars, jvars, tk_save_path, tk_pdf_path, tk_page_spec,
                   tk_selected_pages, tk_photo_images, tk_reader, tk_inner, tk_loaders,
                   tk_after, tk_spec_age>>

\* the Tkinter front-end with its save and extract buttons
TkNextRun ==
    \/ \E d \in Docs : TkSelectPdf(d)
    \/ \E w \in 1..MaxLoaders : TkLoadRead(w)
    \/ \E w \in 1..MaxLoaders : TkLoadConvert(w)
    \/ \E w \in 1..MaxLoaders : TkLoadConvertFails(w)
    \/ TkPopulateThumbnailCanvas
    \/ \E p \in ClickPages : TkTogglePage(p)
    \/ TkSelectSave
    \/ \E confirm \in BOOLEAN : TkRun(confirm)

TkNext ==
    \/ \E d \in Docs : TkSelectPdf(d)
    \/ \E w \in 1..MaxLoaders : TkLoadRead(w)
    \/ \E w \in 1..MaxLoaders : TkLoadConvert(w)
    \/ \E w \in 1..MaxLoaders : TkLoadConvertFails(w)
    \/ TkPopulateThumbnailCanvas
    \/ \E p \in ClickPages : TkTogglePage(p)
    \/ \E t \in TextInputs : TkEditPageSpec(t)

(***************************************************************************)
(* The click on a card of the grid that is shown                           *)
(***************************************************************************)

\* the on_click of a card drawn by populate_file_based_thumbnail_grid:
\* lambda e, page_num=page_num: self.toggle_page(page_num); the event e, and
\* with it the state of the shift key, is not looked at
CardClick(shift, page_number) ==
    /\ page_number \in 1..thumbnail_grid.n
    /\ selected_pages' = toggle_single_page(selected_pages, page_number)
    /\ page_spec_field' = PageSpecOf(selected_pages')
    /\ thumbnail_grid' = GridOf(thumbnails, selected_pages')
    /\ last_op' = IF shift THEN "card_click:shift" ELSE "card_click:plain"
    /\ UNCHANGED <<cvars, tvars, svars, kvars, jvars, pdf_path, save_path, last_selected_page, reader, thumbnails,
                   status_text, loaders>>

\* the application as wired, every click carrying the state of the shift key
NextClick ==
    \/ \E d \in {"A", "B"} : SelectPdf(d)
    \/ \E w \in 1..MaxLoaders : LoadCleanup(w)
    \/ \E w \in 1..MaxLoaders : LoadRead(w)
    \/ \E w \in 1..MaxLoaders : LoadConvert(w)
    \/ \E w \in 1..MaxLoaders : LoadConvertFails(w)
    \/ \E w \in 1..MaxLoaders : LoadPopulate(w)
    \/ \E p \in ClickPages, shift \in BOOLEAN : CardClick(shift, p)
    \/ SelectAllPages
    \/ DeselectAllPages

(***************************************************************************)
(* The Flet front-end: run_split and the split_pages thread                *)
(***************************************************************************)

\* the texts of the split field when the split button is pressed
SplitInputs == { <<>>, <<"0">>, <<"1">>, <<"2", " ">>, <<"x">> }

\* run_split: the error shown for the text of the split field, or ""
RunSplitError(rdr, text) ==
    LET p_str == strip(text) IN
    IF rdr = NoDoc THEN "no_reader"
    ELSE IF ~(Len(p_str) >= 1 /\ AllDigits(p_str)) \/ int(p_str) <= 0 THEN "bad_p"
    ELSE ""

\* num_output_files = (total_pages + p_val - 1) // p_val
NumOutputFiles(total_pages, p_val) == (total_pages + p_val - 1) \div p_val

\* the file name of the chunk of pages start_page .. end_page
ChunkFileName(base_name, p_val, start_page, end_page) ==
    IF p_val = 1 THEN <<base_name, "_page_", start_page>>
    ELSE <<base_name, "_pages_", start_page, end_page>>

\* base_name: of the save path when one is set, else of the PDF's path
SplitBaseName ==
    IF save_path # <<>> THEN <<"save", save_path>> ELSE <<"pdf", pdf_path>>

\* run_split, the split button
RunSplit(text) ==
    /\ splitter.pc = "idle"
    /\ LET err == RunSplitError(reader, text) IN
       IF err = ""
       THEN /\ splitter' = [NoSplitter EXCEPT !.pc = "start", !.p = int(strip(text)),
                                              !.doc = reader]
            /\ split_files' = <<>>
            /\ last_op' = "run_split:started"
            /\ UNCHANGED dialog
       ELSE /\ dialog' = <<"error", err>>
            /\ last_op' = "run_split:error"
            /\ UNCHANGED <<splitter, split_files>>
    /\ UNCHANGED <<cvars, tvars, kvars, extractor, out_file, progress_bar, pdf_path, save_path,
                   selected_pages, last_selected_page, reader, thumbnails, thumbnail_grid,
                   page_spec_field, status_text, loaders>>

\* split_pages up to its loop: total_pages, num_output_files, the progress
\* bar shown, the status, output_dir and base_name
SplitStart ==
    /\ splitter.pc = "start"
    /\ reader # NoDoc
    /\ splitter' = [splitter EXCEPT !.pc = "chunk",
                                    !.total = PageCount(reader),
                                    !.num = NumOutputFiles(PageCount(reader), splitter.p),
                                    !.base = SplitBaseName]
    /\ progress_bar' = [visible |-> TRUE, value |-> Fraction(0, 1)]
    /\ status_text' = <<"splitting", splitter.p>>
    /\ last_op' = "split_pages:start"
    /\ UNCHANGED <<cvars, tvars, kvars, extractor, out_file, dialog, split_files, pdf_path, save_path,
                   selected_pages, last_selected_page, reader, thumbnails, thumbnail_grid,
                   page_spec_field, loaders>>

\* split_pages, one turn of the loop: the pages start_idx .. end_idx - 1 of
\* self.reader added to a new writer, the metadata, the file written, the
\* progress bar advanced
SplitChunk ==
    /\ splitter.pc = "chunk"
    /\ splitter.i < splitter.num
    /\ LET start_idx == splitter.i * splitter.p
           end_idx == Min((splitter.i + 1) * splitter.p, splitter.total)
       IN /\ reader # NoDoc
          /\ end_idx <= PageCount(reader)
          /\ split_files' =
                Append(split_files,
                       [name |-> ChunkFileName(splitter.base, splitter.p, start_idx + 1, end_idx),
                        pages |-> [k \in 1..(end_idx - start_idx) |-> <<reader, start_idx + k - 1>>],
                        meta |-> IF HasMetadata(reader) THEN reader ELSE NoDoc])
    /\ splitter' = [splitter EXCEPT !.i = @ + 1]
    /\ progress_bar' = [progress_bar EXCEPT !.value = Fraction(splitter.i + 1, splitter.num)]
    /\ last_op' = "split_pages:chunk"
    /\ UNCHANGED <<cvars, tvars, kvars, extractor, out_file, dialog, pdf_path, save_path,
                   selected_pages, last_selected_page, reader, thumbnails, thumbnail_grid,
                   page_spec_field, status_text, loaders>>

\* split_pages after its loop: the final status, the info dialog, and the
\* progress bar hidden by the finally block
SplitDone ==
    /\ splitter.pc = "chunk"
    /\ splitter.i = splitter.num
    /\ status_text' = <<"split_done", Len(split_files)>>
    /\ dialog' = <<"info", "split">>
    /\ progress_bar' = [progress_bar EXCEPT !.visible = FALSE]
    /\ splitter' = NoSplitter
    /\ last_op' = "split_pages:done"
    /\ UNCHANGED <<cvars, tvars, kvars, extractor, out_file, split_files, pdf_path, save_path,
                   selected_pages, last_selected_page, reader, thumbnails, thumbnail_grid,
                   page_spec_field, loaders>>

\* split_pages, the except branch: self.reader is None, or a page index is
\* beyond the reader's pages
SplitFails ==
    /\ \/ /\ splitter.pc = "start"
          /\ reader = NoDoc
       \/ /\ splitter.pc = "chunk"
          /\ splitter.i < splitter.num
          /\ \/ reader = NoDoc
             \/ Min((splitter.i + 1) * splitter.p, splitter.total) > PageCount(reader)
    /\ status_text' = <<"split_failed">>
    /\ dialog' = <<"error", "split">>
    /\ progress_bar' = [progress_bar EXCEPT !.visible = FALSE]
    /\ splitter' = NoSplitter
    /\ last_op' = "split_pages:failed"
    /\ UNCHANGED <<cvars, tvars, kvars, extractor, out_file, split_files, pdf_path, save_path,
                   selected_pages, last_selected_page, reader, thumbnails, thumbnail_grid,
                   page_spec_field, loaders>>

\* the documents picked while the split button is in use
SplitDocs == {"A", "Empty"}

\* the application as it is wired, with the split button
NextSplit ==
    \/ \E d \in SplitDocs : SelectPdf(d)
    \/ \E w \in 1..MaxLoaders : LoadCleanup(w)
    \/ \E w \in 1..MaxLoaders : LoadRead(w)
    \/ \E w \in 1..MaxLoaders : LoadConvert(w)
    \/ \E w \in 1..MaxLoaders : LoadConvertFails(w)
    \/ \E w \in 1..MaxLoaders : LoadPopulate(w)
    \/ \E text \in SplitInputs : RunSplit(text)
    \/ SplitStart
    \/ SplitChunk
    \/ SplitDone
    \/ SplitFails

(***************************************************************************)
(* Specifications                                                          *)
(***************************************************************************)

vars == <<cvars, fvars, tvars, jvars, svars, kvars>>

\* the codec variables while a front-end runs
CodecIdle ==
    /\ cpc = "off"
    /\ cin = [kind |-> "none", N |-> 0, S |-> {}, toks |-> <<>>]
    /\ cout = [spec |-> <<>>, entry |-> <<>>, res |-> NoResult, spec2 |-> <<>>]

\* every front-end as constructed, the codec not exercised
Init == FletInit /\ TkInit /\ CodecIdle /\ JobsInit

\* the codec's inputs drawn, the front-ends as constructed
InitCodec == CodecInit /\ FletInit /\ TkInit /\ JobsInit

SpecCodec == InitCodec /\ [][CodecNext]_vars

Spec == Init /\ [][Next]_vars

SpecTk == Init /\ [][TkNext]_vars

SpecTkRun == Init /\ [][TkNextRun]_vars

SpecApi == Init /\ [][NextApi]_vars

\* a document loaded, possibly another one just chosen, and a text typed; no
\* extraction started yet
InitExtract ==
    /\ \E d \in LoadedDocs, text \in TextInputs :
          \/ Loaded(d, text)
          \/ d # NoDoc /\ Reselected(d, "B", text)
    /\ TkInit /\ CodecIdle /\ JobsInit

SpecExtract == InitExtract /\ [][NextExtract]_vars

SpecBig == Init /\ [][NextBig]_vars

SpecClick == Init /\ [][NextClick]_vars

\* every thread, once started, keeps being scheduled: each step of a load
\* thread and of the extraction thread is taken if it stays possible
WorkerFair ==
    /\ \A w \in 1..MaxLoaders :
          /\ WF_vars(LoadCleanup(w))
          /\ WF_vars(LoadRead(w))
          /\ WF_vars(LoadConvert(w) \/ LoadConvertFails(w))
          /\ WF_vars(LoadPopulate(w))
    /\ WF_vars(ExtractStart)
    /\ WF_vars(ExtractAddPage \/ ExtractMetadata \/ ExtractWrite \/ ExtractFails)

FairExtract == SpecExtract /\ WorkerFair

\* no document or document B loaded, no split started yet
InitSplit ==
    /\ \E d \in {NoDoc, "B"} : Loaded(d, <<>>)
    /\ TkInit /\ CodecIdle /\ JobsInit

SpecSplit == InitSplit /\ [][NextSplit]_vars

\* ---- claims ----

(***************************************************************************)
(* What a spec built from tokens must give, read off the tokens themselves *)
(***************************************************************************)

TokValid(t, N) ==
    \/ t.k = "blank"
    \/ t.k = "page" /\ 1 <= t.a /\ t.a <= N
    \/ t.k = "range" /\ t.a <= t.b /\ 1 <= t.a /\ t.b <= N

TokRangeBad(t, N) ==
    \/ t.k = "page" /\ (t.a < 1 \/ t.a > N)
    \/ t.k = "range" /\ (t.a > t.b \/ t.a < 1 \/ t.b > N)

TokMalformed(t) == t.k = "bad"

TokPages(t) == IF t.k = "blank" THEN {} ELSE (t.a - 1)..(t.b - 1)

\* the first token that is not valid, 0 when all are
FirstInvalid(toks, N) ==
    LET Bad == {i \in 1..Len(toks) : ~TokValid(toks[i], N)}
    IN IF Bad = {} THEN 0 ELSE SetMin(Bad)

\* the error kind of a raised ValueError, told by the raise statement (the
\* message): a format error, or one of the three range errors
ErrorKind(res) ==
    IF res.site = "format" THEN "FormatError"
    ELSE IF res.site \in {"page_out_of_range", "range_inverted", "range_out_of_range"}
    THEN "RangeError"
    ELSE "none"

StrictlyAscending(q) == \A i \in 1..(Len(q) - 1) : q[i] < q[i + 1]

\* the run a part of a spec stands for, <<a, b>>
RunOf(part) ==
    IF PAGE_RE(part) THEN <<int(part), int(part)>>
    ELSE <<int(SubSeq(part, 1, HyphenAt(part) - 1)),
           int(SubSeq(part, HyphenAt(part) + 1, Len(part)))>>

\* a part is "a" or "a-b" with a < b, its numbers written without leading zero
PartWellFormed(part) ==
    \/ PAGE_RE(part) /\ part[1] # "0"
    \/ /\ ~PAGE_RE(part) /\ RANGE_RE(part)
       /\ part[1] # "0" /\ part[HyphenAt(part) + 1] # "0"
       /\ RunOf(part)[1] < RunOf(part)[2]

\* text is the canonical spec of the 0-based set S
Canonical(text, S) ==
    IF S = {} THEN text = <<>>
    ELSE LET parts == split(text, ",") IN
         /\ \A k \in 1..Len(parts) : PartWellFormed(parts[k])
         /\ \A k \in 1..(Len(parts) - 1) : RunOf(parts[k + 1])[1] >= RunOf(parts[k])[2] + 2
         /\ UNION {RunOf(parts[k])[1]..RunOf(parts[k])[2] : k \in 1..Len(parts)}
                = {p + 1 : p \in S}

\* C1: round trip. For every N >= 0 and every S within 0..N-1,
\* parse_pages(serialize(S), N) succeeds and returns exactly the elements of
\* S, each once; and serializing the parsed pages again gives the very same
\* string as serialize(S).
C1_RoundTrip ==
    /\ cpc \in {"parsed_back", "reserialized"} =>
          /\ cout.res.ok
          /\ SeqToSet(cout.res.pages) = cin.S
          /\ Len(cout.res.pages) = Cardinality(cin.S)
    /\ cpc = "reserialized" => cout.spec2 = cout.spec

C1_Witness ==
    /\ cpc = "reserialized"
    /\ cin.S = {0, 1, 2, 4, 9, 10}
    /\ cout.spec = <<"1", "-", "3", ",", "5", ",", "1", "0", "-", "1", "1">>
    /\ cout.res.pages = <<0, 1, 2, 4, 9, 10>>

\* C2: serialize is canonical. The string lists the 1-based pages as maximal
\* runs of consecutive numbers, ascending, joined by ","; a run of one page
\* is written "a", a longer run "a-b"; no two runs touch or overlap; the
\* empty set gives the empty string. Both front-ends give this string.
C2_Canonical ==
    cpc = "serialized" =>
        /\ Canonical(cout.spec, cin.S)
        /\ Canonical(cout.entry, cin.S)
        /\ cin.S = {0, 1, 2, 4, 6, 7} =>
              cout.spec = <<"1", "-", "3", ",", "5", ",", "7", "-", "8">>

C2_Witness ==
    /\ cpc = "serialized"
    /\ cin.S = {0, 1, 2, 4, 6, 7}
    /\ cout.spec = <<"1", "-", "3", ",", "5", ",", "7", "-", "8">>
    /\ cout.entry = cout.spec

\* C3: when every non-empty token of the spec is valid for maxPage, parse_pages
\* returns a strictly ascending list that is exactly the union of the tokens'
\* pages, 0-based; repeated and overlapping tokens are no error.
C3_ParseUnion ==
    (cpc = "parsed" /\ \A i \in 1..Len(cin.toks) : TokValid(cin.toks[i], cin.N)) =>
        /\ cout.res.ok
        /\ StrictlyAscending(cout.res.pages)
        /\ SeqToSet(cout.res.pages) = UNION {TokPages(cin.toks[i]) : i \in 1..Len(cin.toks)}
        /\ (SpecText(cin.toks) = <<"2", ",", "2", ",", "1", "-", "3">> /\ cin.N = 5) =>
              cout.res.pages = <<0, 1, 2>>
        /\ (SpecText(cin.toks) = <<"1", ",", " ", "3", " ", ",", "3", "-", "5">> /\ cin.N = 5) =>
              cout.res.pages = <<0, 2, 3, 4>>

C3_Witness ==
    /\ cpc = "parsed"
    /\ SpecText(cin.toks) = <<"2", ",", "2", ",", "1", "-", "3">>
    /\ cin.N = 5
    /\ cout.res.ok
    /\ cout.res.pages = <<0, 1, 2>>

\* C4 as stated: whenever any token is out of range or an inverted range,
\* wherever it stands, parse_pages fails with RangeError.
C4_Original ==
    (cpc = "parsed" /\ \E i \in 1..Len(cin.toks) : TokRangeBad(cin.toks[i], cin.N)) =>
        /\ ~cout.res.ok
        /\ ErrorKind(cout.res) = "RangeError"

\* C4 as amended: whenever any token is out of range or an inverted range,
\* wherever it stands and also for maxPage = 0, parse_pages fails and returns
\* no list; the failure is a RangeError when no malformed token stands before
\* the first such token (the first offending token decides the error).
C4_RangeError ==
    (cpc = "parsed" /\ \E i \in 1..Len(cin.toks) : TokRangeBad(cin.toks[i], cin.N)) =>
        /\ ~cout.res.ok
        /\ cout.res.pages = <<>>
        /\ TokRangeBad(cin.toks[FirstInvalid(cin.toks, cin.N)], cin.N) =>
              ErrorKind(cout.res) = "RangeError"

C4_Witness ==
    /\ cpc = "parsed"
    /\ cin.N = 5
    /\ SpecText(cin.toks) = <<"1", ",", "2", ",", "3", "-", "2">>
    /\ ~cout.res.ok
    /\ cout.res.site = "range_inverted"

\* C5 as stated: whenever some token is neither digits nor digits-digits,
\* parse_pages fails with FormatError naming that token.
C5_Original ==
    (cpc = "parsed" /\ \E i \in 1..Len(cin.toks) : TokMalformed(cin.toks[i])) =>
        /\ ~cout.res.ok
        /\ ErrorKind(cout.res) = "FormatError"

\* C5 as amended: whenever some token is neither digits nor digits-digits,
\* parse_pages fails and returns no list; the failure is a FormatError naming
\* the trimmed token when no out-of-range token stands before the first
\* malformed one.
C5_FormatError ==
    (cpc = "parsed" /\ \E i \in 1..Len(cin.toks) : TokMalformed(cin.toks[i])) =>
        /\ ~cout.res.ok
        /\ cout.res.pages = <<>>
        /\ TokMalformed(cin.toks[FirstInvalid(cin.toks, cin.N)]) =>
              /\ ErrorKind(cout.res) = "FormatError"
              /\ cout.res.arg = strip(cin.toks[FirstInvalid(cin.toks, cin.N)].text)

C5_Witness ==
    /\ cpc = "parsed"
    /\ cin.N = 5
    /\ SpecText(cin.toks) = <<"1", ",", "1", "-", "2", "-", "3">>
    /\ ~cout.res.ok
    /\ cout.res.site = "format"
    /\ cout.res.arg = <<"1", "-", "2", "-", "3">>

\* C6: when the text given to on_page_spec_change fails to parse (format or
\* range error), the handler swallows the error and leaves the selection, the
\* anchor and the page count (reader, thumbnails) exactly as they were, also
\* when valid tokens stand before the bad one.
C6_EditErrorNoChange ==
    [][last_op' = "on_page_spec_change:error" =>
          /\ selected_pages' = selected_pages
          /\ last_selected_page' = last_selected_page
          /\ reader' = reader
          /\ thumbnails' = thumbnails]_vars

C6_Witness ==
    /\ last_op = "on_page_spec_change:error"
    /\ page_spec_field = <<"1", ",", "a", "b", "c">>
    /\ selected_pages = {1, 2}
    /\ last_selected_page = 3
    /\ reader = "A"

\* no load_pdf_and_thumbnails thread is running
NoLoadRunning == \A w \in 1..MaxLoaders : loaders[w].pc = "idle"

\* C7 as stated: in every reachable state of a document session (no load
\* under way) every selected index i satisfies 0 <= i < totalPages, the page
\* count of the document the reader holds.
C7_Original == NoLoadRunning => selected_pages \subseteq 0..(totalPages - 1)

\* C8 as stated: once the load of a new document has taken effect (its
\* thumbnails are drawn), the selection is empty and the page-spec text of the
\* previous document is gone.
C8_Original ==
    tk_last_op = "populate_thumbnail_canvas" =>
        /\ tk_selected_pages = {}
        /\ tk_spec_age = "current"

\* the operations after which the text field is rewritten from the selection
RewritingOps ==
    {"toggle_page", "handle_page_click:toggle", "handle_page_click:range",
     "select_all_pages", "deselect_all_pages"}

C10_Original ==
    thumbnail_grid.hl = selected_pages \cap (0..(thumbnail_grid.n - 1))

\* the pages of document d at the indices of seq, in the order of seq
PagesOf(d, seq) == [k \in 1..Len(seq) |-> <<d, seq[k]>>]

\* C11 as stated: a successful extract has written exactly the pages of the
\* parsed page sequence, each once, in ascending order, taken from the document
\* that was loaded when extract was pressed, with that document's metadata when
\* it has any.
C11_Original ==
    last_op = "extract_pages:done" =>
        /\ StrictlyAscending(out_file.seq)
        /\ out_file.pages = PagesOf(out_file.doc, out_file.seq)
        /\ out_file.meta = IF HasMetadata(out_file.doc) THEN out_file.doc ELSE NoDoc

\* extract cannot proceed: no document loaded, the page spec does not parse
\* against the document's page count or yields no page, or no save path is set
CannotExtract ==
    \/ reader = NoDoc
    \/ ~parse_pages(page_spec_field, PageCount(reader)).ok
    \/ parse_pages(page_spec_field, PageCount(reader)).pages = <<>>
    \/ save_path = <<>>

\* C12: when extract is pressed and cannot proceed, an error dialog is shown,
\* no extraction thread starts, no file is written, and the selection and the
\* anchor stay exactly as they were.
C12_ExtractRefused ==
    [][(last_op' \in {"run_extract:error", "run_extract:started"} /\ CannotExtract) =>
          /\ last_op' = "run_extract:error"
          /\ dialog'[1] = "error"
          /\ extractor' = NoExtractor
          /\ out_file' = out_file
          /\ selected_pages' = selected_pages
          /\ last_selected_page' = last_selected_page]_vars

C12_Witness ==
    /\ last_op = "run_extract:error"
    /\ dialog = <<"error", "no_save_path">>
    /\ reader = "A"
    /\ page_spec_field = <<"2", "-", "3">>
    /\ out_file = NoFile

\* the steps that toggle one page
ToggleOps == {"toggle_page", "handle_page_click:toggle"}

\* S with the membership of page p's index flipped
Flipped(S, p) == (S \ {p - 1}) \cup ({p - 1} \ S)

\* C13 as stated: every click that toggles page p flips the membership of p-1,
\* leaves every other index as it was, and sets the anchor to p.
C13_Original ==
    [][last_op' \in ToggleOps =>
          \E p \in ClickPages :
              /\ selected_pages' = Flipped(selected_pages, p)
              /\ last_selected_page' = p]_vars

\* C14: toggle is its own inverse: when a click has toggled page p, toggling p
\* again gives back the selection from before the click, and with it the same
\* text-field spec; the click itself has changed the selection.
C14_ToggleInverse ==
    [][last_op' \in ToggleOps =>
          \E p \in ClickPages :
              /\ selected_pages' = Flipped(selected_pages, p)
              /\ selected_pages' # selected_pages
              /\ toggle_single_page(selected_pages', p) = selected_pages
              /\ PageSpecOf(toggle_single_page(selected_pages', p)) = PageSpecOf(selected_pages)]_vars

\* a page toggled on and off again: the selection and the field are back to
\* empty
C14_Witness ==
    /\ last_op = "toggle_page"
    /\ thumbnail_grid = [doc |-> "A", n |-> 3, hl |-> {}]
    /\ selected_pages = {}
    /\ page_spec_field = <<>>
    /\ last_selected_page = -1

\* the indices of the pages between from and to, whichever is larger, that lie
\* in a document of n pages
RangeWithin(from, to, n) ==
    {q - 1 : q \in {r \in Min(from, to)..(IF from >= to THEN from ELSE to) : 1 <= r /\ r <= n}}

C16_Original ==
    last_op = "select_all_pages" =>
        /\ selected_pages = 0..(totalPages - 1)
        /\ last_selected_page = totalPages

\* C17: deselect-all, from any state, empties the selection, sets the anchor to
\* none, and leaves the text field showing the empty spec (and no card
\* highlighted).
C17_Clear ==
    last_op = "deselect_all_pages" =>
        /\ selected_pages = {}
        /\ last_selected_page = -1
        /\ page_spec_field = <<>>
        /\ thumbnail_grid.hl = {}

\* deselect-all has run on a loaded document whose anchor select-all had set
C17_Witness ==
    /\ last_op = "deselect_all_pages"
    /\ thumbnail_grid = [doc |-> "B", n |-> 2, hl |-> {}]
    /\ reader = "B"
    /\ selected_pages = {}
    /\ last_selected_page = -1

\* C18 as stated: when a non-empty text given to on_page_spec_change parses
\* against the totalPages of the loaded document (no load under way), the
\* selection becomes exactly the parsed indices and the anchor is unchanged.
C18_Original ==
    [][(/\ last_op' \in {"on_page_spec_change:return", "on_page_spec_change:parsed",
                         "on_page_spec_change:error"}
        /\ NoLoadRunning
        /\ reader # NoDoc
        /\ strip(page_spec_field') # <<>>
        /\ parse_pages(page_spec_field', totalPages).ok) =>
          /\ selected_pages' = SeqToSet(parse_pages(page_spec_field', totalPages).pages)
          /\ last_selected_page' = last_selected_page]_vars

\* C19 as stated: after the user has emptied the text field (or left only
\* whitespace in it) no page remains selected.
C19_Original ==
    (last_op = "on_page_spec_change:return" /\ strip(page_spec_field) = <<>>) =>
        selected_pages = {}

\* the text of a token without the whitespace around its number or range
CleanText(t) ==
    IF t.k \in {"page", "range"} THEN SelectSeq(t.text, LAMBDA c : c # " ") ELSE t.text

\* the spec of the same tokens with the empty tokens, and so their commas, and
\* the surrounding whitespace left out
CleanSpec(toks) ==
    LET kept == SelectSeq(toks, LAMBDA t : t.k # "blank")
    IN join(",", [i \in 1..Len(kept) |-> CleanText(kept[i])])

\* C20: parse_pages returns the empty list without error for a spec that is
\* empty, only whitespace or only commas, for every maxPage >= 0; and empty
\* tokens and whitespace around tokens never change the outcome: the result,
\* or the failure, is that of the spec without them.
C20_BlankTokensSkipped ==
    cpc = "parsed" =>
        /\ (\A i \in 1..Len(cin.toks) : cin.toks[i].k = "blank") =>
              (cout.res.ok /\ cout.res.pages = <<>>)
        /\ cout.res = parse_pages(CleanSpec(cin.toks), cin.N)

C20_Witness ==
    /\ cpc = "parsed"
    /\ SpecText(cin.toks) = <<",", " ", ",", " ", "3", " ">>
    /\ CleanSpec(cin.toks) = <<"3">>
    /\ cin.N = 5
    /\ cout.res.ok
    /\ cout.res.pages = <<2>>

(***************************************************************************)
(* C21 .. C30                                                              *)
(***************************************************************************)

ClickOps == {"card_click:shift", "card_click:plain"}

\* C21: a click on page p is dispatched to selectRange(anchor, p) exactly
\* when the shift modifier is active and an anchor exists, and to toggle(p)
\* otherwise.
C21_Original ==
    [][last_op' \in ClickOps =>
          \E p \in ClickPages :
              IF last_op' = "card_click:shift" /\ last_selected_page >= 0
              THEN selected_pages' =
                      selected_pages \cup
                          RangeWithin(last_selected_page, p, thumbnail_grid.n)
              ELSE selected_pages' = Flipped(selected_pages, p)]_vars

\* C22: toggle(page) with page < 1 or page > totalPages fails and leaves
\* selected and the anchor unchanged: a toggle never adds or removes an index
\* outside [0, totalPages), here for the clicks made while no load is running.
C22_Original ==
    [][last_op' = "toggle_page" /\ NoLoadRunning =>
          \A p \in ClickPages :
              selected_pages' = Flipped(selected_pages, p) => p \in 1..totalPages]_vars

\* a step of a background thread: a load thread or the extraction thread
\* moves on from a position it had reached
WorkerStep ==
    \/ \E w \in 1..MaxLoaders : loaders[w].pc # "idle" /\ loaders'[w] # loaders[w]
    \/ extractor.pc # "idle" /\ extractor' # extractor

\* C23: single writer: the background workers (load and thumbnails,
\* extraction) never write selected, the anchor or the page-spec text; only
\* the operations run on the UI thread do.
C23_Original ==
    [][WorkerStep =>
          UNCHANGED <<selected_pages, last_selected_page, page_spec_field>>]_vars

\* C24: extract never overwrites an existing destination file without an
\* explicit confirmation: a write onto the path of a file already written
\* follows a confirmation dialog answered yes.
C24_Original ==
    [][/\ last_op' = "extract_pages:done"
       /\ out_file.path # <<>>
       /\ out_file'.path = out_file.path
       => dialog = <<"confirm", "yes">>]_vars

\* a / b <= c / d for fractions of positive denominators
FractionLeq(x, y) == x[1] * y[2] <= y[1] * x[2]

\* the extraction thread is between showing the progress bar and its
\* terminal status
Extracting(e) == e.pc \in {"add", "write"}

\* C25: progress during the work is non-decreasing and the indicator is
\* hidden only after the terminal status: while an extraction is under way
\* the progress bar stays visible and its value never goes down.
C25_Original ==
    [][Extracting(extractor) /\ Extracting(extractor') =>
          /\ progress_bar'.visible
          /\ FractionLeq(progress_bar.value, progress_bar'.value)]_vars

\* the liveness half of C25, which holds under FairExtract: every started
\* extraction and every started load reaches its terminal status, shown in the
\* status text, with the progress bar hidden
C25_ExtractTerminates ==
    (extractor.pc # "idle") ~>
        (/\ last_op \in {"extract_pages:done", "extract_pages:failed"}
         /\ status_text[1] \in {"extracted", "extract_failed"}
         /\ ~progress_bar.visible)

C25_LoadTerminates ==
    \A w \in 1..MaxLoaders :
        (loaders[w].pc # "idle") ~>
            (/\ last_op \in {"load:complete", "load:failed", "load:no_pages"}
             /\ status_text[1] \in {"load_complete", "load_failed"}
             /\ ~progress_bar.visible)

\* ceil(T / P)
CeilDiv(T, P) == (T + P - 1) \div P

\* the pages of chunk i (0-based) of document D of T pages cut every P pages:
\* the 0-based indices i*P .. min((i+1)*P, T) - 1, in source order
ChunkPages(D, T, P, i) ==
    [k \in 1..(Min((i + 1) * P, T) - i * P) |-> <<D, i * P + k - 1>>]

\* the files are the chunks of document D cut every P pages
IsSplitOf(files, D, P) ==
    LET T == PageCount(D)  N == CeilDiv(T, P) IN
    /\ Len(files) = N
    /\ \A i \in 0..(N - 1) : files[i + 1].pages = ChunkPages(D, T, P, i)
    /\ \A i \in 0..(N - 2) : Len(files[i + 1].pages) = P
    /\ N > 0 => Len(files[N].pages) \in 1..P
    /\ \A pg \in 0..(T - 1) :
          Cardinality({i \in 1..Len(files) : <<D, pg>> \in SeqToSet(files[i].pages)}) = 1
    /\ \A i, j \in 1..Len(files) : i # j => files[i].name # files[j].name

\* C26: a split with chunk size P >= 1 of a document of T pages writes
\* exactly ceil(T/P) files, chunk i holding pages i*P+1 .. min((i+1)*P, T) of
\* the document in source order: every page in exactly one file, every chunk
\* but the last of P pages, no two chunks of the same name, no file for T = 0.
\* The document is the one the reader held when the button was pressed or
\* any one loaded since.
C26_Original ==
    [][last_op' = "split_pages:done" /\ splitter.pc = "chunk" =>
          \E D \in {splitter.doc} \cup SplitDocs :
              IsSplitOf(split_files', D, splitter.p)]_vars

TkRunOps == {"run:no_reader", "run:error", "run:declined", "run:overwritten", "run:done"}

\* no load thread of the Tkinter front-end is alive
TkNoLoadRunning == \A w \in 1..MaxLoaders : tk_loaders[w].pc = "idle"

\* C27: after a failed load no document counts as loaded: a press of the
\* extract button right after the failure of the load of the document chosen
\* last writes nothing, and so no page of a document loaded before.
C27_Original ==
    [][/\ tk_last_op = "load:failed"
       /\ TkNoLoadRunning
       /\ IsEncrypted(tk_pdf_path)
       /\ tk_last_op' \in TkRunOps
       => tk_out_file' = tk_out_file]_vars

\* C28: an extraction started for document D with page sequence L and save
\* path P writes the pages L of D to P, whatever UI events come after the
\* press of the button: the thread never fails, and the file it writes has
\* the path and the pages fixed when it was started.
C28_Original ==
    [][/\ last_op' = "extract_pages:failed" => ~Extracting(extractor)
       /\ last_op' = "extract_pages:done" /\ Extracting(extractor) =>
             /\ out_file'.path = extractor.path
             /\ out_file'.pages = PagesOf(extractor.doc, extractor.pages)]_vars

\* C29: when a PDF is selected while the load of the one selected before is
\* still running, then once both loads have finished the reader, the
\* thumbnails and the cards drawn all belong to the document selected last,
\* a readable one (or are absent, its thumbnails having failed).
C29_Original ==
    NoLoadRunning /\ ~IsEncrypted(pdf_path) =>
        /\ reader \in {NoDoc, pdf_path}
        /\ thumbnails.doc \in {NoDoc, pdf_path}
        /\ thumbnail_grid.doc \in {NoDoc, pdf_path}

\* a document is loaded and shown: no load thread alive, and the reader, the
\* thumbnails and the cards drawn are of one document
LoadedSettled ==
    /\ NoLoadRunning
    /\ reader # NoDoc
    /\ thumbnails.doc = reader
    /\ thumbnail_grid.doc = reader

\* what run_extract gets from parse_pages at this moment
FieldParse == parse_pages(page_spec_field, PageCount(reader))

SelectionOps ==
    {"toggle_page", "select_all_pages", "deselect_all_pages",
     "on_page_spec_change:return", "on_page_spec_change:parsed",
     "on_page_spec_change:error"}

\* C30: on a loaded document every click, select-all, deselect-all and text
\* edit keeps the text of the page-spec field, parsed against the reader's
\* page count as run_extract does, equal to sorted(selected); here for the
\* edits that leave a text that parses.
C30_Original ==
    [][/\ LoadedSettled
       /\ FieldParse.ok
       /\ FieldParse.pages = sorted(selected_pages)
       /\ last_op' \in SelectionOps
       => LET res == parse_pages(page_spec_field', PageCount(reader'))
          IN res.ok => res.pages = sorted(selected_pages')]_vars

====
